---------------------------- MODULE Spec2Model ----------------------------
(***************************************************************************)
(* xtop: the application state machine of the terminal dashboard.          *)
(*                                                                         *)
(* The App struct (src/src/app.rs) is one record; every method of App is   *)
(* an operator from App records to App records, translated line by line.  *)
(* run_app (src/src/main.rs) is a process with a position pc that draws,   *)
(* calls update_metrics, polls one input event and dispatches it.          *)
(*                                                                         *)
(* Units: a Duration or an Instant is a number of microseconds; an f64     *)
(* cpu percentage is a number of tenths of a percent.                      *)
(***************************************************************************)
EXTENDS Integers, Sequences, FiniteSets, TLC

\* ------------------------------------------------------------------ bounds

\* Longest process list and largest viewport the scroll specification draws.
MaxProcs == 4
MaxRows == 3
\* scroll_offset (a usize, saturating at usize::MAX) is explored up to here.
MaxScroll == 10
\* Consecutive calls of one method that are counted (the count saturates).
MaxRun == 7
\* The clock of the control loop is explored up to MaxPolls poll timeouts.
MaxPolls == 10
\* update_metrics is called at up to MaxTicks full intervals on the clock.
MaxTicks == 1
\* Input events are read up to MaxEvents times, a poll timeout apart.
MaxEvents == 3
\* The ranges of the metrics are explored from Apps that have accepted
\* 2^WarmDoublings ticks, all of them upwards or all of them downwards.
WarmDoublings == 8
\* create_progress_bar is called with percentages up to MaxPercentage and
\* widths up to MaxWidth.
MaxPercentage == 110
MaxWidth == 10

\* --------------------------------------------------------------- constants

MILLIS == 1000
\* App::default: update_interval and max_processes.
DefaultIntervalMs == 1000
DefaultMaxProcesses == 20
\* increase_update_delay / decrease_update_delay: the cap and the floor.
MaxDelaySecs == 10
MinDelayMs == 250
\* run_app: event::poll(Duration::from_millis(100)).
PollTimeoutMs == 100
\* scroll_page_down / scroll_page_up outside the Process view.
GenericPage == 10
\* SystemInfo::default.
CpuCount == 8
MemoryTotal == 16384
MemoryUsedDefault == 8192
TotalRxDefault == 1200
TotalTxDefault == 450
CpuTotalDefault == 45
\* update_metrics: the clamps and the moduli of the random walk.
PercentMax == 100
\* create_progress_bar: the divisor 100.0.
Hundred == 100
RxMax == 5000
TxMax == 2500
ProcMemMax == 2000
CoreMod == 10
MemMod == 50
RxMod == 200
RxShift == 100
TxMod == 100
TxShift == 50
ProcMemMod == 10
\* An f64 percentage is kept in tenths: 100.0 is CpuScale * PercentMax.
CpuScale == 10

Millis(n) == n * MILLIS
Secs(n) == n * MILLIS * MILLIS

Min(a, b) == IF a <= b THEN a ELSE b
Max(a, b) == IF a >= b THEN a ELSE b
\* A clamp that has no upper end.
Clamp_from_below(x, lo, hi) == IF x < lo THEN lo ELSE x

\* i64::clamp / f64::clamp
Clamp(x, lo, hi) == IF x < lo THEN lo ELSE IF x > hi THEN hi ELSE x

\* ------------------------------------------------------------------- enums

View == {"System", "Process", "Resources", "Network", "Disks", "Options"}

ProcessSort ==
    {"Pid", "Name", "Cpu", "Memory", "User", "Time", "Threads", "State"}

ProcessState ==
    {"Running", "Sleeping", "Waiting", "Zombie", "Stopped", "Tracing",
     "Dead", "Wakekill", "Waking", "Parked", "Idle"}

\* impl Display for ProcessState: the one-letter string, as its bytes.
StateToString(st) ==
    CASE st = "Running" -> <<82>>
      [] st = "Sleeping" -> <<83>>
      [] st = "Waiting" -> <<68>>
      [] st = "Zombie" -> <<90>>
      [] st = "Stopped" -> <<84>>
      [] st = "Tracing" -> <<116>>
      [] st = "Dead" -> <<88>>
      [] st = "Wakekill" -> <<75>>
      [] st = "Waking" -> <<87>>
      [] st = "Parked" -> <<80>>
      [] st = "Idle" -> <<73>>

\* The UTF-8 bytes of the names and users of generate_sample_processes.
Bytes(s) ==
    CASE s = "systemd" -> <<115, 121, 115, 116, 101, 109, 100>>
      [] s = "NetworkManager" ->
            <<78, 101, 116, 119, 111, 114, 107, 77, 97, 110, 97, 103, 101, 114>>
      [] s = "gnome-shell" -> <<103, 110, 111, 109, 101, 45, 115, 104, 101, 108, 108>>
      [] s = "firefox" -> <<102, 105, 114, 101, 102, 111, 120>>
      [] s = "code" -> <<99, 111, 100, 101>>
      [] s = "docker" -> <<100, 111, 99, 107, 101, 114>>
      [] s = "postgres" -> <<112, 111, 115, 116, 103, 114, 101, 115>>
      [] s = "nginx" -> <<110, 103, 105, 110, 120>>
      [] s = "redis" -> <<114, 101, 100, 105, 115>>
      [] s = "python3" -> <<112, 121, 116, 104, 111, 110, 51>>
      [] s = "root" -> <<114, 111, 111, 116>>
      [] s = "user" -> <<117, 115, 101, 114>>
      [] s = "www-data" -> <<119, 119, 119, 45, 100, 97, 116, 97>>

\* Ord::cmp on integers: -1 (Less), 0 (Equal), 1 (Greater).
Cmp(x, y) == IF x < y THEN -1 ELSE IF x > y THEN 1 ELSE 0

\* Ord::cmp on strings: lexicographic on the bytes.
RECURSIVE StrCmp(_, _)
StrCmp(s, t) ==
    IF s = <<>> THEN (IF t = <<>> THEN 0 ELSE -1)
    ELSE IF t = <<>> THEN 1
    ELSE IF Head(s) # Head(t) THEN Cmp(Head(s), Head(t))
    ELSE StrCmp(Tail(s), Tail(t))

\* ------------------------------------------------------- sys_info defaults

\* The tuples of generate_sample_processes:
\* (name, pid, ppid, user, cpu in tenths, memory, state).
SampleTuples ==
    << <<"systemd", 1, 0, "root", 15, 200, "Sleeping">>,
       <<"NetworkManager", 1234, 1, "root", 23, 45, "Sleeping">>,
       <<"gnome-shell", 2345, 1, "user", 125, 356, "Running">>,
       <<"firefox", 3456, 2345, "user", 248, 1240, "Running">>,
       <<"code", 4567, 2345, "user", 182, 890, "Running">>,
       <<"docker", 5678, 1, "root", 35, 345, "Sleeping">>,
       <<"postgres", 6789, 1, "postgres", 78, 456, "Sleeping">>,
       <<"nginx", 7890, 1, "www-data", 12, 89, "Sleeping">>,
       <<"redis", 8901, 1, "redis", 25, 123, "Sleeping">>,
       <<"python3", 9012, 3456, "user", 153, 234, "Running">> >>

\* The ProcessInfo pushed for the i-th tuple (enumerate() counts from 0).
SampleProcess(n) ==
    LET t == SampleTuples[n]
        i == n - 1
    IN  [pid |-> t[2], ppid |-> t[3], name |-> t[1], user |-> t[4],
         cpu_usage |-> t[5], memory_usage |-> t[6], state |-> t[7],
         threads |-> (i + 1) * 2, uptime |-> 3600 * i]

generate_sample_processes ==
    [n \in 1..Len(SampleTuples) |-> SampleProcess(n)]

\* impl Default for SystemInfo (the fields update_metrics reads or writes).
SystemInfoDefault ==
    [cpu_count |-> CpuCount,
     cpu_usage_per_core |->
        [n \in 1..CpuCount |-> Min(20 + (n - 1) * 5, 100)],
     cpu_total_usage |-> CpuTotalDefault,
     memory_total |-> MemoryTotal,
     memory_used |-> MemoryUsedDefault,
     total_rx |-> TotalRxDefault,
     total_tx |-> TotalTxDefault,
     processes |-> generate_sample_processes,
     cpu_history |-> <<45, 50, 55, 60, 65, 70, 65, 60, 55, 50, 45, 40>>,
     memory_history |-> <<50, 52, 54, 56, 58, 60, 62, 64, 66, 68, 70, 72>>,
     net_rx_history |-> <<800, 850, 900, 950, 1000, 1050, 1100, 1150, 1200>>,
     net_tx_history |-> <<300, 325, 350, 375, 400, 425, 450, 475, 500>>]

\* impl Default for App, constructed at Instant t.
AppDefault(t) ==
    [current_view |-> "System",
     metrics |-> SystemInfoDefault,
     scroll_offset |-> 0,
     process_scroll_offset |-> 0,
     selected_process |-> 0,
     show_help |-> FALSE,
     paused |-> FALSE,
     update_interval |-> Millis(DefaultIntervalMs),
     last_update |-> t,
     process_sort |-> "Cpu",
     sort_reverse |-> TRUE,
     show_full_command |-> FALSE,
     show_tree_view |-> FALSE,
     show_proc_details |-> FALSE,
     proc_aggregated |-> FALSE,
     max_processes |-> DefaultMaxProcesses]

\* ------------------------------------------------------------ usize, i64

\* usize is modelled UsizeBits wide; the arithmetic is that of a build
\* without overflow checks (wrapping), saturating where the code says so.
UsizeBits == 8
UsizeMax == 2 ^ UsizeBits - 1
usize_add(x, y) == (x + y) % (UsizeMax + 1)
usize_sub(x, y) == (x - y) % (UsizeMax + 1)
saturating_add(x, y) == Min(x + y, UsizeMax)
saturating_sub(x, y) == IF x >= y THEN x - y ELSE 0
\* The % of Rust on a signed dividend: the remainder has the dividend's sign.
RustRem(x, m) == IF x >= 0 THEN x % m ELSE -((-x) % m)

\* ------------------------------------------------- view, selection, scroll

\* cycle_view with the Options arm left out of the cycle.
cycle_target_skips_options(v) ==
    CASE v = "System" -> "Process"
      [] v = "Process" -> "Resources"
      [] v = "Resources" -> "Network"
      [] v = "Network" -> "Disks"
      [] v = "Disks" -> "System"
      [] v = "Options" -> "System"

cycle_target(v) ==
    CASE v = "System" -> "Process"
      [] v = "Process" -> "Resources"
      [] v = "Resources" -> "Network"
      [] v = "Network" -> "Disks"
      [] v = "Disks" -> "Options"
      [] v = "Options" -> "System"

reset_selection(a) ==
    [a EXCEPT !.selected_process = 0,
              !.process_scroll_offset = 0,
              !.show_proc_details = FALSE]

cycle_view(a) ==
    reset_selection([a EXCEPT !.current_view = cycle_target(a.current_view)])

\* run_app, keys '1'..'5': a plain assignment to current_view.
select_view(a, v) == [a EXCEPT !.current_view = v]

\* The digit keys a keyboard sends as KeyCode::Char.
DigitKeys == <<"1", "2", "3", "4", "5", "6">>

\* run_app, the match on key.code for a digit key: '1'..'5' have an arm,
\* any other key falls to `_ => {}`.
key_digit(a, c) ==
    CASE c = "1" -> select_view(a, "System")
      [] c = "2" -> select_view(a, "Process")
      [] c = "3" -> select_view(a, "Resources")
      [] c = "4" -> select_view(a, "Network")
      [] c = "5" -> select_view(a, "Disks")
      [] OTHER -> a

NumProcesses(a) == Len(a.metrics.processes)

\* scroll_down that moves the window by a page when the selection leaves it.
scroll_down_jumps_a_page(a) ==
    IF a.current_view = "Process"
    THEN IF a.selected_process < usize_sub(NumProcesses(a), 1)
         THEN LET sel == usize_add(a.selected_process, 1)
                  visible_rows == a.max_processes
              IN  [a EXCEPT
                     !.selected_process = sel,
                     !.process_scroll_offset =
                        IF sel >= usize_add(@, visible_rows)
                        THEN usize_add(@, visible_rows) ELSE @]
         ELSE a
    ELSE [a EXCEPT !.scroll_offset = saturating_add(@, 1)]

scroll_down(a) ==
    IF a.current_view = "Process"
    THEN IF a.selected_process < usize_sub(NumProcesses(a), 1)
         THEN LET sel == usize_add(a.selected_process, 1)
                  visible_rows == a.max_processes
              IN  [a EXCEPT
                     !.selected_process = sel,
                     !.process_scroll_offset =
                        IF sel >= usize_add(@, visible_rows)
                        THEN usize_add(@, 1) ELSE @]
         ELSE a
    ELSE [a EXCEPT !.scroll_offset = saturating_add(@, 1)]

\* scroll_up that moves the selection and leaves the window behind.
scroll_up_keeps_offset(a) ==
    IF a.current_view = "Process"
    THEN IF a.selected_process > 0
         THEN [a EXCEPT !.selected_process = usize_sub(@, 1)]
         ELSE a
    ELSE [a EXCEPT !.scroll_offset = saturating_sub(@, 1)]

scroll_up(a) ==
    IF a.current_view = "Process"
    THEN IF a.selected_process > 0
         THEN LET sel == usize_sub(a.selected_process, 1)
              IN  [a EXCEPT
                     !.selected_process = sel,
                     !.process_scroll_offset =
                        IF sel < @ THEN saturating_sub(@, 1) ELSE @]
         ELSE a
    ELSE [a EXCEPT !.scroll_offset = saturating_sub(@, 1)]

\* scroll_page_down without the clamp of the selection to the last row.
scroll_page_down_unclamped(a) ==
    IF a.current_view = "Process"
    THEN LET page_size == a.max_processes
         IN  [a EXCEPT
                !.selected_process = usize_add(@, page_size),
                !.process_scroll_offset =
                   Min(usize_add(@, page_size),
                       saturating_sub(NumProcesses(a), page_size))]
    ELSE [a EXCEPT !.scroll_offset = saturating_add(@, GenericPage)]

scroll_page_down(a) ==
    IF a.current_view = "Process"
    THEN LET page_size == a.max_processes
         IN  [a EXCEPT
                !.selected_process =
                   Min(usize_add(@, page_size), usize_sub(NumProcesses(a), 1)),
                !.process_scroll_offset =
                   Min(usize_add(@, page_size),
                       saturating_sub(NumProcesses(a), page_size))]
    ELSE [a EXCEPT !.scroll_offset = saturating_add(@, GenericPage)]

\* scroll_page_up that moves the selection and leaves the window behind.
scroll_page_up_keeps_offset(a) ==
    IF a.current_view = "Process"
    THEN [a EXCEPT !.selected_process = saturating_sub(@, a.max_processes)]
    ELSE [a EXCEPT !.scroll_offset = saturating_sub(@, GenericPage)]

scroll_page_up(a) ==
    IF a.current_view = "Process"
    THEN LET page_size == a.max_processes
         IN  [a EXCEPT
                !.selected_process = saturating_sub(@, page_size),
                !.process_scroll_offset = saturating_sub(@, page_size)]
    ELSE [a EXCEPT !.scroll_offset = saturating_sub(@, GenericPage)]

\* scroll_top that resets the selection as 'r' does, the overlay included.
scroll_top_resets_selection(a) ==
    IF a.current_view = "Process"
    THEN reset_selection(a)
    ELSE [a EXCEPT !.scroll_offset = 0]

scroll_top(a) ==
    IF a.current_view = "Process"
    THEN [a EXCEPT !.selected_process = 0, !.process_scroll_offset = 0]
    ELSE [a EXCEPT !.scroll_offset = 0]

\* scroll_bottom that selects the last row and leaves the window behind.
scroll_bottom_keeps_offset(a) ==
    IF a.current_view = "Process"
    THEN [a EXCEPT !.selected_process = usize_sub(NumProcesses(a), 1)]
    ELSE a

scroll_bottom(a) ==
    IF a.current_view = "Process"
    THEN LET visible_rows == a.max_processes
         IN  [a EXCEPT
                !.selected_process = usize_sub(NumProcesses(a), 1),
                !.process_scroll_offset =
                   saturating_sub(NumProcesses(a), visible_rows)]
    ELSE a

\* Whether an unchecked `+` or `-` of the method leaves the range of usize:
\* a build with overflow checks panics there, one without wraps around (as
\* usize_add and usize_sub do). scroll_up, scroll_page_up and scroll_top
\* subtract by saturating_sub or behind a guard and never overflow.
scroll_down_overflows(a) ==
    /\ a.current_view = "Process"
    /\ \/ NumProcesses(a) < 1
       \/ /\ a.selected_process < NumProcesses(a) - 1
          /\ a.process_scroll_offset + a.max_processes > UsizeMax

scroll_page_down_overflows(a) ==
    /\ a.current_view = "Process"
    /\ \/ a.selected_process + a.max_processes > UsizeMax
       \/ NumProcesses(a) < 1
       \/ a.process_scroll_offset + a.max_processes > UsizeMax

scroll_bottom_overflows(a) ==
    /\ a.current_view = "Process"
    /\ NumProcesses(a) < 1

\* ----------------------------------------------------------------- toggles

toggle_pause(a) == [a EXCEPT !.paused = ~@]
toggle_help(a) == [a EXCEPT !.show_help = ~@]
toggle_process_details(a) == [a EXCEPT !.show_proc_details = ~@]
toggle_full_command(a) == [a EXCEPT !.show_full_command = ~@]
toggle_tree_view(a) == [a EXCEPT !.show_tree_view = ~@]
toggle_proc_aggregation(a) == [a EXCEPT !.proc_aggregated = ~@]

\* ---------------------------------------------------------- update interval

\* increase_update_delay that caps the interval before doubling it.
increase_update_delay_caps_first(a) ==
    [a EXCEPT !.update_interval = Min(@, Secs(MaxDelaySecs)) * 2]

increase_update_delay(a) ==
    [a EXCEPT !.update_interval = Min(@ * 2, Secs(MaxDelaySecs))]

\* decrease_update_delay that floors the interval before halving it.
decrease_update_delay_floors_first(a) ==
    [a EXCEPT !.update_interval = Max(@, Millis(MinDelayMs)) \div 2]

decrease_update_delay(a) ==
    [a EXCEPT !.update_interval = Max(@ \div 2, Millis(MinDelayMs))]

\* -------------------------------------------------------------------- sort

\* The comparator sort_processes hands to sort_by for each key.
sort_cmp(key, p, q) ==
    CASE key = "Pid" -> Cmp(p.pid, q.pid)
      [] key = "Name" -> StrCmp(Bytes(p.name), Bytes(q.name))
      [] key = "Cpu" -> Cmp(q.cpu_usage, p.cpu_usage)
      [] key = "Memory" -> Cmp(q.memory_usage, p.memory_usage)
      [] key = "User" -> StrCmp(Bytes(p.user), Bytes(q.user))
      [] key = "Time" -> Cmp(q.uptime, p.uptime)
      [] key = "Threads" -> Cmp(q.threads, p.threads)
      [] key = "State" ->
            StrCmp(StateToString(p.state), StateToString(q.state))

\* An insertion that takes an element equal to one of s for a duplicate and
\* drops it.
RECURSIVE insert_stable_drops_equals(_, _, _)
insert_stable_drops_equals(s, x, key) ==
    IF s = <<>> THEN <<x>>
    ELSE IF sort_cmp(key, Head(s), x) = 1 THEN <<x>> \o s
    ELSE IF sort_cmp(key, Head(s), x) = 0 THEN s
    ELSE <<Head(s)>> \o insert_stable_drops_equals(Tail(s), x, key)

\* x placed into the sorted s behind every element that does not compare
\* Greater than it: equal elements keep their order of arrival.
RECURSIVE insert_stable(_, _, _)
insert_stable(s, x, key) ==
    IF s = <<>> THEN <<x>>
    ELSE IF sort_cmp(key, Head(s), x) = 1 THEN <<x>> \o s
    ELSE <<Head(s)>> \o insert_stable(Tail(s), x, key)

\* slice::sort_by: the stable sort of s under sort_cmp(key, _, _).
RECURSIVE sort_by(_, _)
sort_by(s, key) ==
    IF s = <<>> THEN <<>>
    ELSE insert_stable(sort_by(SubSeq(s, 1, Len(s) - 1), key), s[Len(s)], key)

\* slice::reverse
reverse(s) == [n \in 1..Len(s) |-> s[Len(s) + 1 - n]]

\* sort_processes that reverses the list when sort_reverse is set.
sort_processes_reverses_when_set(a) ==
    LET sorted == sort_by(a.metrics.processes, a.process_sort)
    IN  [a EXCEPT !.metrics.processes =
            IF a.sort_reverse THEN reverse(sorted) ELSE sorted]

sort_processes(a) ==
    LET sorted == sort_by(a.metrics.processes, a.process_sort)
    IN  [a EXCEPT !.metrics.processes =
            IF ~a.sort_reverse THEN reverse(sorted) ELSE sorted]

\* change_sort_column that gives every call the default direction of the key.
change_sort_column_never_flips(a, sort) ==
    reset_selection(sort_processes(
        [a EXCEPT !.process_sort = sort,
                  !.sort_reverse = sort \in {"Cpu", "Memory"}]))

\* change_sort_column that leaves the selection where it is.
change_sort_column_keeps_selection(a, sort) ==
    LET b == IF a.process_sort = sort
             THEN [a EXCEPT !.sort_reverse = ~@]
             ELSE [a EXCEPT !.process_sort = sort,
                            !.sort_reverse = sort \in {"Cpu", "Memory"}]
    IN  sort_processes(b)

change_sort_column(a, sort) ==
    LET b == IF a.process_sort = sort
             THEN [a EXCEPT !.sort_reverse = ~@]
             ELSE [a EXCEPT !.process_sort = sort,
                            !.sort_reverse = sort \in {"Cpu", "Memory"}]
    IN  reset_selection(sort_processes(b))

\* ------------------------------------------------------------------- utils

\* (n as f64 / d as f64).round() as usize for integers n >= 0 and d > 0.
\* The quotient of two small integers is computed to the nearest f64; a
\* quotient that ends in .5 is a f64 itself, so the division is exact there
\* and no other quotient is carried across a .5; f64::round rounds half-way
\* cases away from zero.
round_div(n, d) == (2 * n + d) \div (2 * d)

\* str::repeat, on a string held as the sequence of its chars.
repeat(c, n) == [i \in 1..n |-> c]

\* create_progress_bar that truncates where the code rounds.
create_progress_bar_truncates(percentage, width) ==
    LET filled == (percentage * width) \div Hundred
        empty == saturating_sub(width, filled)
    IN  <<"[">> \o repeat("FULL BLOCK", filled)
                \o repeat("LIGHT SHADE", empty) \o <<"]">>

\* The String create_progress_bar returns, as the sequence of its chars
\* (U+2588 FULL BLOCK and U+2591 LIGHT SHADE by their names).
create_progress_bar(percentage, width) ==
    LET filled == round_div(percentage * width, Hundred)
        empty == saturating_sub(width, filled)
    IN  <<"[">> \o repeat("FULL BLOCK", filled)
                \o repeat("LIGHT SHADE", empty) \o <<"]">>

\* ------------------------------------------------------------ key dispatch

\* The key codes that have an arm in the match of run_app ('q' and Esc, which
\* return from run_app, aside).
BoundKeys ==
    {"1", "2", "3", "4", "5", "Tab", "Down", "j", "Up", "k", "PageDown", "J",
     "PageUp", "K", "Home", "End", "+", "-", " ", "r", "Enter", "f", "c", "m",
     "p", "n", "F1", "F5", "F6"}

\* Key codes without an arm.
UnboundKeys == {"6", "x", "F2"}

\* The arm of the match on key.code for a bound key.
bound_key(a, code) ==
    CASE code \in {"1", "2", "3", "4", "5"} -> key_digit(a, code)
      [] code = "Tab" -> cycle_view(a)
      [] code \in {"Down", "j"} -> scroll_down(a)
      [] code \in {"Up", "k"} -> scroll_up(a)
      [] code \in {"PageDown", "J"} -> scroll_page_down(a)
      [] code \in {"PageUp", "K"} -> scroll_page_up(a)
      [] code = "Home" -> scroll_top(a)
      [] code = "End" -> scroll_bottom(a)
      [] code = "+" -> increase_update_delay(a)
      [] code = "-" -> decrease_update_delay(a)
      [] code = " " -> toggle_pause(a)
      [] code = "r" -> reset_selection(a)
      [] code = "Enter" -> toggle_process_details(a)
      [] code = "f" -> toggle_full_command(a)
      [] code = "c" -> change_sort_column(a, "Cpu")
      [] code = "m" -> change_sort_column(a, "Memory")
      [] code = "p" -> change_sort_column(a, "Pid")
      [] code = "n" -> change_sort_column(a, "Name")
      [] code = "F1" -> toggle_help(a)
      [] code = "F5" -> toggle_tree_view(a)
      [] code = "F6" -> toggle_proc_aggregation(a)

\* A dispatch that takes a key without an arm for 'r'.
on_key_resets_on_unbound(a, code) ==
    IF code \in BoundKeys THEN bound_key(a, code) ELSE reset_selection(a)

\* match key.code { .. _ => {} }
on_key(a, code) ==
    IF code \in BoundKeys THEN bound_key(a, code) ELSE a

\* The events event::read() returns: key events (pressed or released) and,
\* with mouse capture enabled, mouse and resize events.
KeyEvent(kind, code) == [type |-> "Key", kind |-> kind, code |-> code]
PressEvents == {KeyEvent("Press", c) : c \in BoundKeys \cup UnboundKeys}
ReleaseEvents == {KeyEvent("Release", c) : c \in {" ", "Tab"}}
OtherEvents ==
    {[type |-> t, kind |-> "", code |-> ""] : t \in {"Mouse", "Resize"}}
Events == PressEvents \cup ReleaseEvents \cup OtherEvents

\* A dispatch that hears nothing but the pause key while paused.
on_event_deaf_while_paused(a, e) ==
    IF e.type = "Key" /\ e.kind = "Press" /\ (~a.paused \/ e.code = " ")
    THEN on_key(a, e.code)
    ELSE a

\* if let Event::Key(key) = event::read()? {
\*     if key.kind == KeyEventKind::Press { match key.code { .. } } }
on_event(a, e) ==
    IF e.type = "Key" /\ e.kind = "Press" THEN on_key(a, e.code) ELSE a

\* ---------------------------------------------------------- update_metrics

\* The values rand::random() returns during one call of update_metrics:
\*   core[n], core_up[n]   the u64 and the bool drawn for core n
\*   mem, mem_up           the u64 and the bool drawn for memory_used
\*   rx, tx                the i64 drawn for total_rx and for total_tx
\*   pcpu[n], pcpu_up[n]   the f64 in [0, 1), in tenths, and the bool drawn
\*                         for the n-th process of the list
\*   pmem[n], pmem_up[n]   the u64 and the bool drawn for the n-th process
DrawHigh ==
    [core |-> [n \in 1..CpuCount |-> 19], core_up |-> [n \in 1..CpuCount |-> TRUE],
     mem |-> 49, mem_up |-> TRUE, rx |-> 199, tx |-> 99,
     pcpu |-> [n \in 1..Len(SampleTuples) |-> 9],
     pcpu_up |-> [n \in 1..Len(SampleTuples) |-> TRUE],
     pmem |-> [n \in 1..Len(SampleTuples) |-> 9],
     pmem_up |-> [n \in 1..Len(SampleTuples) |-> TRUE]]

DrawLow ==
    [core |-> [n \in 1..CpuCount |-> 9], core_up |-> [n \in 1..CpuCount |-> FALSE],
     mem |-> 149, mem_up |-> FALSE, rx |-> -199, tx |-> -99,
     pcpu |-> [n \in 1..Len(SampleTuples) |-> 9],
     pcpu_up |-> [n \in 1..Len(SampleTuples) |-> FALSE],
     pmem |-> [n \in 1..Len(SampleTuples) |-> 9],
     pmem_up |-> [n \in 1..Len(SampleTuples) |-> FALSE]]

DrawMixed ==
    [core |-> [n \in 1..CpuCount |-> 3 * n],
     core_up |-> [n \in 1..CpuCount |-> n % 2 = 0],
     mem |-> 57, mem_up |-> TRUE, rx |-> 250, tx |-> -7,
     pcpu |-> [n \in 1..Len(SampleTuples) |-> (3 * n) % 10],
     pcpu_up |-> [n \in 1..Len(SampleTuples) |-> n % 2 = 1],
     pmem |-> [n \in 1..Len(SampleTuples) |-> 7 * n],
     pmem_up |-> [n \in 1..Len(SampleTuples) |-> n % 3 = 0]]

Draws == {DrawHigh, DrawLow, DrawMixed}

\* if rand::random::<bool>() { 1 } else { -1 }
Direction(up) == IF up THEN 1 ELSE -1

RECURSIVE Sum(_)
Sum(s) == IF s = <<>> THEN 0 ELSE Head(s) + Sum(Tail(s))

\* A push that evicts nothing.
push_only(h, v) == Append(h, v)

\* The new value entered at the front, the newest entry evicted.
push_front(h, v) == <<v>> \o SubSeq(h, 1, Len(h) - 1)

\* Vec::remove(0) followed by Vec::push(v).
remove_push(h, v) == Append(Tail(h), v)

\* A gate that looks at the clock alone.
gate_ignores_pause(a, t) == t - a.last_update < a.update_interval

\* A gate that stays closed at exactly one interval.
gate_closed_at_the_interval(a, t) ==
    a.paused \/ t - a.last_update <= a.update_interval

\* The gate of update_metrics at Instant t.
gate_closed(a, t) == a.paused \/ t - a.last_update < a.update_interval

\* The body of update_metrics behind the gate, with the draws r.
refresh_metrics(a, t, r) ==
    LET m == a.metrics
        cores == [n \in 1..Len(m.cpu_usage_per_core) |->
                    Clamp(m.cpu_usage_per_core[n]
                            + (r.core[n] % CoreMod) * Direction(r.core_up[n]),
                          0, PercentMax)]
        cpu_total == Sum(cores) \div m.cpu_count
        mem_used == Clamp(m.memory_used + (r.mem % MemMod) * Direction(r.mem_up),
                          0, m.memory_total)
        rx == Clamp(m.total_rx + RustRem(r.rx, RxMod) - RxShift, 0, RxMax)
        tx == Clamp(m.total_tx + RustRem(r.tx, TxMod) - TxShift, 0, TxMax)
        mem_percent == (mem_used * PercentMax) \div m.memory_total
        procs == [n \in 1..Len(m.processes) |->
                    [m.processes[n] EXCEPT
                       !.cpu_usage =
                          Clamp(@ + (r.pcpu[n] % (5 * CpuScale))
                                       * Direction(r.pcpu_up[n]),
                                0, PercentMax * CpuScale),
                       !.memory_usage =
                          Clamp(@ + (r.pmem[n] % ProcMemMod)
                                       * Direction(r.pmem_up[n]),
                                0, ProcMemMax)]]
        b == [a EXCEPT
                !.last_update = t,
                !.metrics.cpu_usage_per_core = cores,
                !.metrics.cpu_total_usage = cpu_total,
                !.metrics.memory_used = mem_used,
                !.metrics.total_rx = rx,
                !.metrics.total_tx = tx,
                !.metrics.cpu_history = remove_push(@, cpu_total),
                !.metrics.memory_history = remove_push(@, mem_percent),
                !.metrics.net_rx_history = remove_push(@, rx),
                !.metrics.net_tx_history = remove_push(@, tx),
                !.metrics.processes = procs]
    IN  sort_processes(b)

\* update_metrics that rounds the mean of the cores to the nearest integer.
update_metrics_rounds_the_mean(a, t, r) ==
    IF gate_closed(a, t) THEN a
    ELSE LET b == refresh_metrics(a, t, r)
             m == b.metrics
             mean == (2 * Sum(m.cpu_usage_per_core) + m.cpu_count)
                        \div (2 * m.cpu_count)
         IN  [b EXCEPT !.metrics.cpu_total_usage = mean,
                       !.metrics.cpu_history =
                          Append(SubSeq(@, 1, Len(@) - 1), mean)]

\* update_metrics that puts the selection back on the first row of the
\* re-sorted list.
update_metrics_resets_selection(a, t, r) ==
    IF gate_closed(a, t) THEN a
    ELSE reset_selection(refresh_metrics(a, t, r))

update_metrics(a, t, r) ==
    IF gate_closed(a, t) THEN a ELSE refresh_metrics(a, t, r)

\* ------------------------------------------------------------------- state

\* The terminal before main touches it, and as main has set it up when it
\* constructs the App and enters run_app.
TermInitial ==
    [raw_mode |-> FALSE, alternate_screen |-> FALSE, mouse_capture |-> FALSE]
TermSetUp ==
    [raw_mode |-> TRUE, alternate_screen |-> TRUE, mouse_capture |-> TRUE]

\* No function of utils.rs has been called.
NoCall == [fn |-> "none"]

VARIABLES
    app,        \* the App
    now,        \* the clock: what Instant::now() returns
    pc,         \* the position of main and run_app: "enable_raw_mode",
                \* "enter_screen", "new_terminal", then "draw", "update",
                \* "poll" in run_app, "done" or "failed" when run_app has
                \* returned Ok or Err, "leave_screen", "show_cursor", "exit";
                \* "call" when the methods of App are called directly
                \* ("call_checked" in a build with overflow checks), and
                \* "panicked" after a panic
    term,       \* the modes of the terminal
    accepted,   \* whether update_metrics passed its gate in this iteration
    op,         \* the method of App called last
    run,        \* how many times in a row op has been called (up to MaxRun)
    start,      \* the App before the first call of that row
    utils       \* the last call of a function of utils.rs: its name, its
                \* arguments and what it returned

vars == <<app, now, pc, term, accepted, op, run, start, utils>>

Track(name) ==
    /\ op' = name
    /\ run' = IF op = name THEN Min(run + 1, MaxRun) ELSE 1
    /\ start' = IF op = name THEN start ELSE app

\* A direct call of a method of App that returns the App `result`.
Call(name, result) ==
    /\ pc = "call"
    /\ result.scroll_offset <= MaxScroll
    /\ app' = result
    /\ Track(name)
    /\ UNCHANGED <<now, pc, term, accepted, utils>>

ScrollDown == Call("scroll_down", scroll_down(app))
ScrollUp == Call("scroll_up", scroll_up(app))
ScrollPageDown == Call("scroll_page_down", scroll_page_down(app))
ScrollPageUp == Call("scroll_page_up", scroll_page_up(app))
ScrollTop == Call("scroll_top", scroll_top(app))
ScrollBottom == Call("scroll_bottom", scroll_bottom(app))
CycleView == Call("cycle_view", cycle_view(app))
\* Keys '1'..'5' of run_app.
SelectView ==
    \E v \in View \ {"Options"}: Call("select_view", select_view(app, v))

\* The name under which the press of the digit key n is recorded.
DigitOp(n) == "key " \o DigitKeys[n]

\* One of the digit keys '1'..'6' pressed.
KeyDigit ==
    \E n \in 1..Len(DigitKeys): Call(DigitOp(n), key_digit(app, DigitKeys[n]))

IncreaseUpdateDelay == Call("increase_update_delay", increase_update_delay(app))
DecreaseUpdateDelay == Call("decrease_update_delay", decrease_update_delay(app))
TogglePause == Call("toggle_pause", toggle_pause(app))
ToggleHelp == Call("toggle_help", toggle_help(app))
ToggleProcessDetails ==
    Call("toggle_process_details", toggle_process_details(app))

\* The name under which a call of change_sort_column(key) is recorded.
SortOp(key) == "change_sort_column " \o key

ChangeSortColumn ==
    \E key \in ProcessSort: Call(SortOp(key), change_sort_column(app, key))

SortProcesses == Call("sort_processes", sort_processes(app))

\* ------------------------------------------------- scrolling and the views

\* App::default() over a process list of L rows and a viewport of V rows.
InitScroll ==
    /\ \E L \in 1..MaxProcs, V \in 1..MaxRows:
          app = [AppDefault(0) EXCEPT
                    !.metrics.processes = SubSeq(generate_sample_processes, 1, L),
                    !.max_processes = V]
    /\ now = 0
    /\ term = TermSetUp
    /\ utils = NoCall
    /\ pc = "call"
    /\ accepted = FALSE
    /\ op = "default"
    /\ run = 0
    /\ start = app

NextScroll ==
    \/ ScrollDown
    \/ ScrollUp
    \/ ScrollPageDown
    \/ ScrollPageUp
    \/ ScrollTop
    \/ ScrollBottom
    \/ CycleView
    \/ SelectView

SpecScroll == InitScroll /\ [][NextScroll]_vars

\* C1. Window containment: after every scroll operation (and every view
\* change between them) on a non-empty process list, the selected row lies
\* in the visible window:
\* process_scroll_offset <= selected_process < process_scroll_offset + V.
C1_WindowContainment ==
    NumProcesses(app) >= 1 =>
        /\ app.process_scroll_offset <= app.selected_process
        /\ app.selected_process < app.process_scroll_offset + app.max_processes

\* A page down has moved the window off the top and the selection sits on
\* the last visible row.
C1_Witness ==
    /\ app.current_view = "Process"
    /\ op = "scroll_page_down"
    /\ app.process_scroll_offset > 0
    /\ app.selected_process = app.process_scroll_offset + app.max_processes - 1

\* C2. Selection bounds: for every L >= 1 and V >= 1, after each operation
\* selected_process is in [0, L-1] and process_scroll_offset is in
\* [0, max(0, L-V)].
C2_SelectionBounds ==
    NumProcesses(app) >= 1 /\ app.max_processes >= 1 =>
        /\ app.selected_process \in 0..(NumProcesses(app) - 1)
        /\ app.process_scroll_offset
              \in 0..Max(0, NumProcesses(app) - app.max_processes)

\* scroll_bottom on a list longer than the viewport: both at their maximum.
C2_Witness ==
    /\ op = "scroll_bottom"
    /\ NumProcesses(app) > app.max_processes
    /\ app.selected_process = NumProcesses(app) - 1
    /\ app.process_scroll_offset = NumProcesses(app) - app.max_processes

\* The views in the order cycle_view visits them.
ViewOrder ==
    <<"System", "Process", "Resources", "Network", "Disks", "Options">>

ViewIndex(v) == CHOOSE n \in 1..Len(ViewOrder): ViewOrder[n] = v

\* C7. View cycle: k consecutive calls of cycle_view lead from a view to
\* the k-th view behind it in System -> Process -> Resources -> Network ->
\* Disks -> Options -> System; six calls return to the starting view and
\* one to five calls never do.
C7_ViewCycle ==
    (op = "cycle_view" /\ run < MaxRun) =>
        /\ app.current_view =
              ViewOrder[((ViewIndex(start.current_view) - 1 + run) % 6) + 1]
        /\ (run = 6 => app.current_view = start.current_view)
        /\ (run \in 1..5 => app.current_view # start.current_view)

\* Six calls in a row that started in a view other than the initial one.
C7_Witness ==
    /\ op = "cycle_view"
    /\ run = 6
    /\ start.current_view = "Network"
    /\ app.current_view = "Network"

\* App::default() over L rows and a viewport of V rows, with the digit keys,
\* Tab, End and Enter.
NextView ==
    \/ KeyDigit
    \/ CycleView
    \/ ScrollBottom
    \/ ToggleProcessDetails

SpecView == InitScroll /\ [][NextView]_vars

\* C15. As claimed: every view change, by Tab or by a digit key, leaves
\* selected_process = 0, process_scroll_offset = 0 and
\* show_proc_details = false.
C15_ViewChangeResets ==
    [][app'.current_view # app.current_view =>
          /\ app'.selected_process = 0
          /\ app'.process_scroll_offset = 0
          /\ ~app'.show_proc_details]_vars

\* C16. As claimed: from any state, the digit key n (1 to 6) enters the
\* n-th of the views System, Process, Resources, Network, Disks, Options.
C16_DirectSelection ==
    [][\A n \in 1..6: op' = DigitOp(n) => app'.current_view = ViewOrder[n]]_vars

\* -------------------------------------------------- the interval controls

\* App::default(), its methods called directly.
InitCall ==
    /\ app = AppDefault(0)
    /\ now = 0
    /\ term = TermSetUp
    /\ utils = NoCall
    /\ pc = "call"
    /\ accepted = FALSE
    /\ op = "default"
    /\ run = 0
    /\ start = app

NextDelay ==
    \/ IncreaseUpdateDelay
    \/ DecreaseUpdateDelay
    \/ TogglePause
    \/ ToggleHelp

SpecDelay == InitCall /\ [][NextDelay]_vars

\* C5. Interval bounds: from the initial 1000 ms, after any sequence of
\* increase_update_delay and decrease_update_delay calls, update_interval
\* is within [250 ms, 10 s] inclusive.
C5_IntervalBounds ==
    /\ 250 * 1000 <= app.update_interval
    /\ app.update_interval <= 10 * 1000 * 1000

\* Three decreases from 1000 ms: the third one is stopped by the floor.
C5_Witness ==
    /\ op = "decrease_update_delay"
    /\ run = 3
    /\ start.update_interval = 1000 * 1000
    /\ app.update_interval = 250 * 1000

\* C6. increase_update_delay sets the interval to min(2 * interval, 10000 ms)
\* and decrease_update_delay to max(interval / 2, 250 ms); five increases
\* in a row from 1000 ms yield exactly 10000 ms, not 32000 ms.
C6_DelayArithmetic ==
    [][/\ op' = "increase_update_delay" =>
             app'.update_interval = Min(2 * app.update_interval, 10000 * 1000)
       /\ op' = "decrease_update_delay" =>
             app'.update_interval = Max(app.update_interval \div 2, 250 * 1000)
       /\ (/\ op' = "increase_update_delay"
           /\ run' = 5
           /\ start'.update_interval = 1000 * 1000) =>
             app'.update_interval = 10000 * 1000]_vars

\* Five increases in a row from 1000 ms, ending at the cap.
C6_Witness ==
    /\ op = "increase_update_delay"
    /\ run = 5
    /\ start.update_interval = 1000 * 1000
    /\ app.update_interval = 10000 * 1000

\* --------------------------------------------------------- the sort column

\* App::default() over the first L sample processes; `level` gives every
\* row the cpu and memory usage of the first one (rows with equal sort values);
\* `scrolled` is the App after the keys '2', End and Enter: the Process view
\* with the last row selected and its details open.
InitSort ==
    /\ \E L \in 1..MaxProcs, level \in BOOLEAN, scrolled \in BOOLEAN:
          LET rows == SubSeq(generate_sample_processes, 1, L)
              base == [AppDefault(0) EXCEPT
                         !.metrics.processes =
                            IF level
                            THEN [n \in 1..L |->
                                    [rows[n] EXCEPT
                                       !.cpu_usage = rows[1].cpu_usage,
                                       !.memory_usage = rows[1].memory_usage]]
                            ELSE rows,
                         !.max_processes = MaxRows]
          IN  app = IF scrolled
                    THEN toggle_process_details(
                            scroll_bottom(select_view(base, "Process")))
                    ELSE base
    /\ now = 0
    /\ term = TermSetUp
    /\ utils = NoCall
    /\ pc = "call"
    /\ accepted = FALSE
    /\ op = "default"
    /\ run = 0
    /\ start = app

NextSort ==
    \/ ChangeSortColumn
    \/ ToggleProcessDetails

SpecSort == InitSort /\ [][NextSort]_vars

\* C10. Sort toggle: change_sort_column(k) flips sort_reverse and keeps the
\* key when k is the current key; otherwise it sets the key to k and
\* sort_reverse to true iff k is Cpu or Memory. From (Cpu, reverse = true),
\* Pid gives (Pid, false) and Pid again gives (Pid, true).
C10_SortToggle ==
    [][\A k \in ProcessSort:
         op' = SortOp(k) =>
            /\ app'.process_sort = k
            /\ app'.sort_reverse =
                  IF app.process_sort = k THEN ~app.sort_reverse
                  ELSE k \in {"Cpu", "Memory"}
            /\ (/\ k = "Pid"
                /\ start'.process_sort = "Cpu"
                /\ start'.sort_reverse) =>
                  /\ run' = 1 => ~app'.sort_reverse
                  /\ run' = 2 => app'.sort_reverse]_vars

\* 'p' pressed twice from (Cpu, reverse = true).
C10_Witness ==
    /\ op = SortOp("Pid")
    /\ run = 2
    /\ start.process_sort = "Cpu"
    /\ start.sort_reverse
    /\ app.process_sort = "Pid"
    /\ app.sort_reverse

\* The natural order of the values of a sort key: Less (-1), Equal (0) or
\* Greater (1) for the rows p and q.
KeyCmp(key, p, q) ==
    CASE key = "Pid" -> Cmp(p.pid, q.pid)
      [] key = "Name" -> StrCmp(Bytes(p.name), Bytes(q.name))
      [] key = "Cpu" -> Cmp(p.cpu_usage, q.cpu_usage)
      [] key = "Memory" -> Cmp(p.memory_usage, q.memory_usage)
      [] key = "User" -> StrCmp(Bytes(p.user), Bytes(q.user))
      [] key = "Time" -> Cmp(p.uptime, q.uptime)
      [] key = "Threads" -> Cmp(p.threads, q.threads)
      [] key = "State" ->
            StrCmp(StateToString(p.state), StateToString(q.state))

\* Lowest value first.
NonDecreasing(s, key) ==
    \A n \in 1..(Len(s) - 1): KeyCmp(key, s[n], s[n + 1]) <= 0

\* Highest value first.
NonIncreasing(s, key) ==
    \A n \in 1..(Len(s) - 1): KeyCmp(key, s[n], s[n + 1]) >= 0

\* The rows of s and of t are the same rows (every pid occurs once).
SameRows(s, t) ==
    /\ Len(s) = Len(t)
    /\ {s[n] : n \in 1..Len(s)} = {t[n] : n \in 1..Len(t)}

\* Where the row with this pid stands in s.
Position(s, pid) == CHOOSE n \in 1..Len(s): s[n].pid = pid

\* Rows of s that are equal under the key stand in the same order in t.
KeepsOrderOfEquals(s, t, key) ==
    \A i, j \in 1..Len(s):
        (i < j /\ KeyCmp(key, s[i], s[j]) = 0) =>
            Position(t, s[i].pid) < Position(t, s[j].pid)

\* C11. change_sort_column, under both branches of the toggle and for every
\* key, ends with selected_process = 0, process_scroll_offset = 0 and
\* show_proc_details = false, and with the same rows sorted by the key.
C11_SortChangeResets ==
    [][\A k \in ProcessSort:
         op' = SortOp(k) =>
            /\ app'.selected_process = 0
            /\ app'.process_scroll_offset = 0
            /\ ~app'.show_proc_details
            /\ SameRows(app.metrics.processes, app'.metrics.processes)
            /\ \/ NonDecreasing(app'.metrics.processes, k)
               \/ NonIncreasing(app'.metrics.processes, k)]_vars

\* The first sort change of an App that had its last row selected, the
\* window scrolled and the details open, on a list it had to reorder.
C11_Witness ==
    /\ op = SortOp("Memory")
    /\ run = 1
    /\ start.selected_process > 0
    /\ start.process_scroll_offset > 0
    /\ start.show_proc_details
    /\ app.selected_process = 0
    /\ app.process_scroll_offset = 0
    /\ ~app.show_proc_details
    /\ app.metrics.processes # start.metrics.processes

\* C12. Sort stability, as claimed: for every key and both directions,
\* sort_processes keeps the relative order of rows that compare equal.
C12_SortStability ==
    [][\A k \in ProcessSort:
         op' = SortOp(k) =>
            KeepsOrderOfEquals(app.metrics.processes,
                               app'.metrics.processes, k)]_vars

\* C13. Newly selecting Cpu or Memory sets sort_reverse to true and leaves
\* the list non-increasing in that key: highest first.
C13_DescendingDefault ==
    [][\A k \in {"Cpu", "Memory"}:
         (op' = SortOp(k) /\ app.process_sort # k) =>
            /\ app'.sort_reverse
            /\ NonIncreasing(app'.metrics.processes, k)]_vars

\* Memory newly selected on three rows that did not stand highest first.
C13_Witness ==
    /\ op = SortOp("Memory")
    /\ run = 1
    /\ start.process_sort # "Memory"
    /\ ~NonIncreasing(start.metrics.processes, "Memory")
    /\ app.sort_reverse
    /\ Len(app.metrics.processes) >= 3
    /\ \A n \in 1..(Len(app.metrics.processes) - 1):
          app.metrics.processes[n].memory_usage
             > app.metrics.processes[n + 1].memory_usage

\* C14. As claimed: newly selecting Pid, Name, User, Time, Threads or State
\* sets sort_reverse to false and leaves the list non-decreasing in that
\* key: lowest first.
C14_AscendingDefault ==
    [][\A k \in ProcessSort \ {"Cpu", "Memory"}:
         (op' = SortOp(k) /\ app.process_sort # k) =>
            /\ ~app'.sort_reverse
            /\ NonDecreasing(app'.metrics.processes, k)]_vars

\* ------------------------------------------------------------- run_app

\* The end of an iteration that restarts the interval whether paused or not.
end_of_iteration_always_resets(a, t) == [a EXCEPT !.last_update = t]

\* The end of an iteration that leaves last_update alone, paused or not.
end_of_iteration_never_resets(a, t) == a

\* run_app, the end of an iteration at Instant t:
\* if app.paused { app.last_update = Instant::now() }
end_of_iteration(a, t) ==
    IF a.paused THEN [a EXCEPT !.last_update = t] ELSE a

PollTimeout == Millis(PollTimeoutMs)
MaxTime == MaxPolls * PollTimeout

\* The time a frame takes on the clock: none, or a stall as long as the
\* default interval.
RenderDelays == {0, Millis(DefaultIntervalMs)}
\* A key arrives at once or just before the poll would time out.
KeyDelays == {0, PollTimeout}

\* terminal.draw(|f| ui(f, app))
Draw ==
    /\ pc = "draw"
    /\ \E d \in RenderDelays:
          /\ now + d <= MaxTime
          /\ now' = now + d
    /\ pc' = "update"
    /\ UNCHANGED <<app, term, accepted, op, run, start, utils>>

\* app.update_metrics()
UpdateMetrics ==
    /\ pc = "update"
    /\ \E r \in Draws: app' = update_metrics(app, now, r)
    /\ accepted' = ~gate_closed(app, now)
    /\ pc' = "poll"
    /\ UNCHANGED <<now, term, op, run, start, utils>>

\* event::poll timed out: no event in this iteration.
NoEvent ==
    /\ pc = "poll"
    /\ now + PollTimeout <= MaxTime
    /\ now' = now + PollTimeout
    /\ app' = end_of_iteration(app, now')
    /\ pc' = "draw"
    /\ UNCHANGED <<term, accepted, op, run, start, utils>>

\* A key press dispatched to the method that returns the App `result`.
Key(result) ==
    /\ pc = "poll"
    /\ \E d \in KeyDelays:
          /\ now + d <= MaxTime
          /\ now' = now + d
    /\ app' = end_of_iteration(result, now')
    /\ pc' = "draw"
    /\ UNCHANGED <<term, accepted, op, run, start, utils>>

KeySpace == Key(toggle_pause(app))
KeyPlus == Key(increase_update_delay(app))
KeyMinus == Key(decrease_update_delay(app))

\* 'q' or Esc: return Ok(())
KeyQuit ==
    /\ pc = "poll"
    /\ pc' = "done"
    /\ UNCHANGED <<app, now, term, accepted, op, run, start, utils>>

\* main: App::default(), then run_app. Next dispatches the keys that bear on
\* the tick (' ', '+', '-', 'q'); the methods behind the other keys are
\* called directly in SpecScroll, SpecDelay and SpecSort.
Init ==
    /\ app = AppDefault(0)
    /\ now = 0
    /\ term = TermSetUp
    /\ utils = NoCall
    /\ pc = "draw"
    /\ accepted = FALSE
    /\ op = "default"
    /\ run = 0
    /\ start = app

Next ==
    \/ Draw
    \/ UpdateMetrics
    \/ NoEvent
    \/ KeySpace
    \/ KeyPlus
    \/ KeyMinus
    \/ KeyQuit

Spec == Init /\ [][Next]_vars

\* The last entry of a history buffer.
Last(h) == h[Len(h)]

\* update_metrics is the step that leaves "update"; it is accepted when the
\* App is not paused and a full update_interval has passed on the clock.
GateOpen == ~app.paused /\ now - app.last_update >= app.update_interval

\* C3. History length: in every reachable state, after any number of ticks
\* (accepted or gated), cpu_history and memory_history hold exactly 12
\* entries and net_rx_history and net_tx_history exactly 9.
C3_HistoryLength ==
    /\ Len(app.metrics.cpu_history) = 12
    /\ Len(app.metrics.memory_history) = 12
    /\ Len(app.metrics.net_rx_history) = 9
    /\ Len(app.metrics.net_tx_history) = 9

\* Two ticks have been accepted: the two oldest entries are gone.
C3_Witness ==
    /\ pc = "poll"
    /\ accepted
    /\ app.metrics.cpu_history[1] = 55
    /\ app.metrics.net_rx_history[1] = 900

\* C4. Sliding window: an accepted tick turns each history buffer h into
\* Tail(h) followed by the value computed in that tick: cpu_total_usage,
\* the memory percentage, total_rx and total_tx.
C4_SlidingWindow ==
    [][(pc = "update" /\ GateOpen) =>
          LET m == app.metrics
              n == app'.metrics
          IN  /\ n.cpu_history = Tail(m.cpu_history) \o <<n.cpu_total_usage>>
              /\ n.memory_history =
                    Tail(m.memory_history)
                       \o <<(n.memory_used * 100) \div n.memory_total>>
              /\ n.net_rx_history = Tail(m.net_rx_history) \o <<n.total_rx>>
              /\ n.net_tx_history = Tail(m.net_tx_history) \o <<n.total_tx>>]_vars

\* An accepted tick has pushed a value that differs from the entry before it.
C4_Witness ==
    /\ pc = "poll"
    /\ accepted
    /\ Last(app.metrics.cpu_history) = app.metrics.cpu_total_usage
    /\ Last(app.metrics.net_rx_history) = app.metrics.total_rx
    /\ Last(app.metrics.cpu_history) # app.metrics.cpu_history[11]
    /\ app.metrics.cpu_history[1] = 50

\* C8. Pause gate: while paused, update_metrics leaves the metrics, the
\* process list and its order and the four history buffers unchanged,
\* whatever time has passed since last_update.
C8_PauseGate ==
    [][(pc = "update" /\ app.paused) => app'.metrics = app.metrics]_vars

\* update_metrics has returned while paused, a full interval after
\* last_update.
C8_Witness ==
    /\ pc = "poll"
    /\ app.paused
    /\ ~accepted
    /\ now - app.last_update >= app.update_interval

\* C9 as claimed: when the gate fails, update_metrics is a no-op and
\* last_update keeps its value until the iteration of run_app ends.
C9_LastUpdateKeptAcrossIteration ==
    [][/\ (pc = "update" /\ ~GateOpen) => app' = app
       /\ (pc = "poll" /\ pc' = "draw" /\ ~accepted) =>
             app'.last_update = app.last_update]_vars

\* C9. Tick gate: update_metrics changes the App only when the App is not
\* paused and now - last_update >= update_interval; when the gate fails it
\* is a no-op, last_update included. When that iteration of run_app runs to
\* its end, last_update keeps its value if the App is then not paused and is
\* set to the current instant if it is paused.
C9_TickGate ==
    [][/\ (pc = "update" /\ app' # app) => GateOpen
       /\ (pc = "update" /\ ~GateOpen) => app' = app
       /\ (pc = "poll" /\ pc' = "draw" /\ ~accepted) =>
             app'.last_update =
                IF app'.paused THEN now' ELSE app.last_update]_vars

\* Both ends of a gated iteration: one that ended paused with last_update
\* moved to the clock, after an earlier tick had been accepted.
C9_Witness ==
    /\ pc = "draw"
    /\ ~accepted
    /\ app.paused
    /\ now > 0
    /\ app.last_update = now
    /\ app.metrics.cpu_history # SystemInfoDefault.cpu_history

\* ------------------------------------------- the order of the process table

\* The order (process_sort, sort_reverse) stands for: highest value of the
\* key first when sort_reverse is set, lowest first when it is not.
Ordered(s, key, sort_reverse) ==
    IF sort_reverse THEN NonIncreasing(s, key) ELSE NonDecreasing(s, key)

\* update_metrics called once a full update_interval has passed.
Tick ==
    /\ pc = "call"
    /\ now + app.update_interval <= MaxTicks * Millis(DefaultIntervalMs)
    /\ now' = now + app.update_interval
    /\ \E r \in Draws: app' = update_metrics(app, now', r)
    /\ accepted' = ~gate_closed(app, now')
    /\ Track("update_metrics")
    /\ UNCHANGED <<pc, term, utils>>

\* App::default() over the first L sample processes.
InitTick ==
    /\ \E L \in 1..MaxProcs:
          app = [AppDefault(0) EXCEPT
                    !.metrics.processes = SubSeq(generate_sample_processes, 1, L),
                    !.max_processes = MaxRows]
    /\ now = 0
    /\ term = TermSetUp
    /\ utils = NoCall
    /\ pc = "call"
    /\ accepted = FALSE
    /\ op = "default"
    /\ run = 0
    /\ start = app

NextTick ==
    \/ Tick
    \/ ChangeSortColumn

SpecTick == InitTick /\ [][NextTick]_vars

\* C17. As claimed: after every accepted tick the process list is ordered
\* according to the current (process_sort, sort_reverse) on the values the
\* tick has drawn.
C17_OrderedAfterTick ==
    [][(op' = "update_metrics" /\ accepted') =>
          Ordered(app'.metrics.processes, app'.process_sort,
                  app'.sort_reverse)]_vars

\* C18. As claimed: in every reachable state of the program, the initial one
\* included, the process list is ordered per the current
\* (process_sort, sort_reverse).
C18_AlwaysOrdered ==
    Ordered(app.metrics.processes, app.process_sort, app.sort_reverse)

\* --------------------------------------------------- the empty process list

\* A method of App called in either build: where the arithmetic of the
\* method overflows, the build with overflow checks panics and the build
\* without them goes on with the wrapped value. The wrapped selection is
\* explored within MaxScroll of either end of usize.
CallBuilt(name, overflows, result) ==
    \/ /\ \/ result.selected_process <= MaxScroll
          \/ result.selected_process >= UsizeMax - MaxScroll
       /\ result.process_scroll_offset <= MaxScroll
       /\ Call(name, result)
    \/ /\ pc = "call_checked"
       /\ pc' = IF overflows THEN "panicked" ELSE pc
       /\ app' = IF overflows THEN app ELSE result
       /\ Track(name)
       /\ UNCHANGED <<now, term, accepted, utils>>

ScrollDownBuilt ==
    CallBuilt("scroll_down", scroll_down_overflows(app), scroll_down(app))
ScrollPageDownBuilt ==
    CallBuilt("scroll_page_down", scroll_page_down_overflows(app),
              scroll_page_down(app))
ScrollBottomBuilt ==
    CallBuilt("scroll_bottom", scroll_bottom_overflows(app), scroll_bottom(app))
ScrollUpBuilt == CallBuilt("scroll_up", FALSE, scroll_up(app))
ScrollPageUpBuilt == CallBuilt("scroll_page_up", FALSE, scroll_page_up(app))
ScrollTopBuilt == CallBuilt("scroll_top", FALSE, scroll_top(app))

\* The Process view of an App whose process list is empty, over a viewport
\* of V rows, in a build without ("call") or with ("call_checked") overflow
\* checks.
InitEmpty ==
    /\ \E V \in 1..MaxRows:
          app = [AppDefault(0) EXCEPT
                    !.current_view = "Process",
                    !.metrics.processes = <<>>,
                    !.max_processes = V]
    /\ now = 0
    /\ term = TermSetUp
    /\ utils = NoCall
    /\ pc \in {"call", "call_checked"}
    /\ accepted = FALSE
    /\ op = "default"
    /\ run = 0
    /\ start = app

NextEmpty ==
    \/ ScrollDownBuilt
    \/ ScrollPageDownBuilt
    \/ ScrollBottomBuilt
    \/ ScrollUpBuilt
    \/ ScrollPageUpBuilt
    \/ ScrollTopBuilt

SpecEmpty == InitEmpty /\ [][NextEmpty]_vars

\* C19. As claimed: when the process list is empty, every scroll operation
\* in the Process view completes without failing and leaves
\* selected_process = 0 and process_scroll_offset = 0.
C19_EmptyListScroll ==
    (NumProcesses(app) = 0 /\ app.current_view = "Process") =>
        /\ pc # "panicked"
        /\ app.selected_process = 0
        /\ app.process_scroll_offset = 0

\* -------------------------------------------------------------------- main

\* The terminals an execute! of two commands that set alternate_screen and
\* mouse_capture to `on` may leave behind when it returns Err: the commands
\* are written in order, so any prefix of them may have taken effect.
Partly(t, on) ==
    {t,
     [t EXCEPT !.alternate_screen = on],
     [t EXCEPT !.alternate_screen = on, !.mouse_capture = on]}

\* enable_raw_mode()?
EnableRawMode ==
    /\ pc = "enable_raw_mode"
    /\ \/ /\ term' = [term EXCEPT !.raw_mode = TRUE]
          /\ pc' = "enter_screen"
       \/ /\ term' = term
          /\ pc' = "exit"
    /\ UNCHANGED <<app, now, accepted, op, run, start, utils>>

\* execute!(stdout, EnterAlternateScreen, EnableMouseCapture)?
EnterScreen ==
    /\ pc = "enter_screen"
    /\ \/ /\ term' = [term EXCEPT !.alternate_screen = TRUE,
                                   !.mouse_capture = TRUE]
          /\ pc' = "new_terminal"
       \/ /\ term' \in Partly(term, TRUE)
          /\ pc' = "exit"
    /\ UNCHANGED <<app, now, accepted, op, run, start, utils>>

\* Terminal::new(backend)?, then App::default() and the call of run_app.
NewTerminal ==
    /\ pc = "new_terminal"
    /\ pc' \in {"draw", "exit"}
    /\ UNCHANGED <<app, now, term, accepted, op, run, start, utils>>

\* terminal.draw(..)? returns Err: run_app returns it.
DrawFails ==
    /\ pc = "draw"
    /\ pc' = "failed"
    /\ UNCHANGED <<app, now, term, accepted, op, run, start, utils>>

\* An input failure that is returned only after a pending key (' ') has
\* been dispatched.
InputFails_after_dispatch ==
    /\ pc = "poll"
    /\ pc' = "failed"
    /\ app' = toggle_pause(app)
    /\ UNCHANGED <<now, term, accepted, op, run, start, utils>>

\* event::poll(..)? or event::read()? returns Err: run_app returns it.
InputFails ==
    /\ pc = "poll"
    /\ pc' = "failed"
    /\ UNCHANGED <<app, now, term, accepted, op, run, start, utils>>

\* disable_raw_mode()?, once run_app has returned into `res`.
DisableRawMode ==
    /\ pc \in {"done", "failed"}
    /\ \/ /\ term' = [term EXCEPT !.raw_mode = FALSE]
          /\ pc' = "leave_screen"
       \/ /\ term' = term
          /\ pc' = "exit"
    /\ UNCHANGED <<app, now, accepted, op, run, start, utils>>

\* execute!(terminal.backend_mut(), LeaveAlternateScreen, DisableMouseCapture)?
LeaveScreen ==
    /\ pc = "leave_screen"
    /\ \/ /\ term' = [term EXCEPT !.alternate_screen = FALSE,
                                   !.mouse_capture = FALSE]
          /\ pc' = "show_cursor"
       \/ /\ term' \in Partly(term, FALSE)
          /\ pc' = "exit"
    /\ UNCHANGED <<app, now, accepted, op, run, start, utils>>

\* terminal.show_cursor()?, the report of `res`, and the return of main.
ShowCursor ==
    /\ pc = "show_cursor"
    /\ pc' = "exit"
    /\ UNCHANGED <<app, now, term, accepted, op, run, start, utils>>

\* main from its first statement, on a terminal in its initial modes.
InitMain ==
    /\ app = AppDefault(0)
    /\ now = 0
    /\ term = TermInitial
    /\ utils = NoCall
    /\ pc = "enable_raw_mode"
    /\ accepted = FALSE
    /\ op = "default"
    /\ run = 0
    /\ start = app

NextMain ==
    \/ EnableRawMode
    \/ EnterScreen
    \/ NewTerminal
    \/ Draw
    \/ DrawFails
    \/ UpdateMetrics
    \/ NoEvent
    \/ InputFails
    \/ KeySpace
    \/ KeyQuit
    \/ DisableRawMode
    \/ LeaveScreen
    \/ ShowCursor

SpecMain == InitMain /\ [][NextMain]_vars

\* C20. As claimed: on every exit path of main after raw mode has been
\* enabled, raw mode is disabled and the alternate screen is left before
\* the process exits.
C20_TerminalRestore ==
    pc = "exit" => ~term.raw_mode /\ ~term.alternate_screen

\* C21. A failed render, a failed input poll or a failed input read ends the
\* control loop at once: the step into "failed" (run_app has returned Err
\* to main) comes straight from the draw or the poll and changes neither
\* the App nor the clock, and after it no tick and no event is processed:
\* main goes on to its restore steps.
C21_FailureIsFatal ==
    [][/\ (pc' = "failed" /\ pc # "failed") =>
             /\ pc \in {"draw", "poll"}
             /\ app' = app
             /\ now' = now
             /\ accepted' = accepted
       /\ pc = "failed" =>
             /\ app' = app
             /\ pc' \in {"leave_screen", "exit"}]_vars

\* An input failure in the iteration that had accepted a tick.
C21_Witness ==
    /\ pc = "failed"
    /\ accepted
    /\ app.last_update = now
    /\ app.metrics.cpu_history # SystemInfoDefault.cpu_history

\* ------------------------------------------------------------ input events

\* The name under which the dispatch of the event e is recorded.
EventOp(e) ==
    IF e.type = "Key"
    THEN (IF e.kind = "Press" THEN "key " ELSE "release ") \o e.code
    ELSE e.type

\* event::poll returns true just before its timeout, event::read() returns
\* the event e, and the iteration runs to its end.
ReadEvent ==
    /\ pc = "poll"
    /\ now + PollTimeout <= MaxTime
    /\ now' = now + PollTimeout
    /\ \E e \in Events:
          /\ app' = end_of_iteration(on_event(app, e), now')
          /\ Track(EventOp(e))
    /\ pc' = "draw"
    /\ UNCHANGED <<term, accepted, utils>>

\* run_app at the top of its loop, MaxEvents poll timeouts before the end
\* of the clock, after iterations without an event: the App is as
\* constructed at 0, over MaxProcs rows and a viewport of MaxRows rows.
InitInput ==
    /\ app = [AppDefault(0) EXCEPT
                 !.metrics.processes =
                    SubSeq(generate_sample_processes, 1, MaxProcs),
                 !.max_processes = MaxRows]
    /\ now = MaxTime - MaxEvents * PollTimeout
    /\ term = TermSetUp
    /\ utils = NoCall
    /\ pc = "draw"
    /\ accepted = FALSE
    /\ op = "default"
    /\ run = 0
    /\ start = app

NextInput ==
    \/ Draw
    \/ UpdateMetrics
    \/ NoEvent
    \/ ReadEvent
    \/ KeyQuit

SpecInput == InitInput /\ [][NextInput]_vars

\* The step of run_app that dispatches the event e.
Dispatched(e) ==
    /\ pc = "poll"
    /\ op' = EventOp(e)
    /\ (op' # op \/ run' # run)

\* The events the dispatch has no arm for.
IgnoredEvents ==
    {KeyEvent("Press", c) : c \in UnboundKeys}
       \cup ReleaseEvents \cup OtherEvents

\* C22. A key press without an arm, a key event that is not a press and an
\* event that is not a key event produce no error (the loop goes on to its
\* next iteration) and leave view, selection, offsets, flags, sort,
\* interval and metrics unchanged: every field of the App but the
\* bookkeeping of the gate, last_update.
C22_IgnoredEvents ==
    [][\A e \in IgnoredEvents:
         Dispatched(e) =>
            /\ pc' = "draw"
            /\ [app' EXCEPT !.last_update = app.last_update] = app]_vars

\* An unbound key pressed with the details open, the next frame drawn.
C22_Witness ==
    /\ op = EventOp(KeyEvent("Press", "x"))
    /\ pc = "update"
    /\ app.show_proc_details
    /\ app.selected_process = 0

\* C23. While paused the loop keeps going round (the tick step changes
\* nothing and hands on to the poll) and every bound key changes the App as
\* it does when not paused: all fields but paused and last_update end as
\* they would from the same App not paused, and paused is left alone by
\* every key but ' ', which clears it. 'q' leaves the loop paused or not.
C23_InputWhilePaused ==
    [][/\ (app.paused /\ pc = "update") => (app' = app /\ pc' = "poll")
       /\ \A c \in BoundKeys:
             (Dispatched(KeyEvent("Press", c)) /\ app.paused) =>
                LET e == KeyEvent("Press", c)
                    free == on_event([app EXCEPT !.paused = FALSE], e)
                IN  /\ pc' = "draw"
                    /\ [app' EXCEPT !.paused = FALSE, !.last_update = 0]
                          = [free EXCEPT !.paused = FALSE, !.last_update = 0]
                    /\ app'.paused = (c # " ")
       /\ (app.paused /\ pc = "poll" /\ pc' = "done") => app' = app]_vars

\* Paused by ' ', then Tab: the Process view, still paused, its frame drawn
\* and the tick skipped.
C23_Witness ==
    /\ op = EventOp(KeyEvent("Press", "Tab"))
    /\ start.paused
    /\ app.paused
    /\ app.current_view = "Process"
    /\ pc = "poll"
    /\ ~accepted
    /\ now = MaxTime

\* -------------------------------------------------------------- tick pace

\* A frame that takes one to three poll timeouts to write to the terminal.
LateDelays == {k * PollTimeout : k \in 1..3}

\* terminal.draw(|f| ui(f, app)) on a slow terminal.
DrawLate ==
    /\ pc = "draw"
    /\ \E d \in LateDelays:
          /\ now + d <= MaxTime
          /\ now' = now + d
    /\ pc' = "update"
    /\ UNCHANGED <<app, term, accepted, op, run, start, utils>>

\* run_app with no input at all, on an App constructed at 0 whose interval
\* is the default one or has been halved once or twice by '-'.
InitLive ==
    /\ app \in {AppDefault(0),
                decrease_update_delay(AppDefault(0)),
                decrease_update_delay(decrease_update_delay(AppDefault(0)))}
    /\ now = 0
    /\ term = TermSetUp
    /\ utils = NoCall
    /\ pc = "draw"
    /\ accepted = FALSE
    /\ op = "default"
    /\ run = 0
    /\ start = app

NextLive ==
    \/ Draw
    \/ DrawLate
    \/ UpdateMetrics
    \/ NoEvent

\* run_app moves on to its next stage: the frame is written, update_metrics
\* returns, the poll times out (while the clock has room for it).
LoopAdvances ==
    \/ pc = "draw" /\ pc' = "update"
    \/ pc = "update" /\ pc' = "poll"
    \/ pc = "poll" /\ now + PollTimeout <= MaxTime /\ pc' = "draw"

\* The single thread of run_app never stops of its own accord.
SpecLive == InitLive /\ [][NextLive]_vars /\ WF_pc(LoopAdvances)

\* The top of an iteration, early enough for the tick that is due next to
\* fall on the clock.
TickFits ==
    /\ pc = "draw"
    /\ app.last_update + app.update_interval + PollTimeout <= MaxTime

\* At least one tick has been accepted.
Ticked == app.metrics.cpu_history # SystemInfoDefault.cpu_history

\* C24 as claimed: running, not paused and without input, every accepted
\* tick is followed by another one, and no more than update_interval plus
\* the input poll timeout ever passes after an accepted tick without the
\* next one.
C24_TickWithinPollTimeout ==
    /\ [](Ticked => now - app.last_update <= app.update_interval + PollTimeout)
    /\ TickFits ~> (pc = "poll" /\ accepted)

\* C24. Tick liveness: running, not paused and without input, every
\* accepted tick is followed by another one. It is accepted by the first
\* call of update_metrics made at least update_interval after the previous
\* tick; the iteration of that call begins less than update_interval plus
\* the poll timeout after the previous tick, and the call comes once the
\* frame of that iteration is rendered.
C24_TickLiveness ==
    /\ [](pc = "draw" =>
            now - app.last_update < app.update_interval + PollTimeout)
    /\ [][(pc = "update" /\ GateOpen) =>
             (accepted' /\ app'.last_update = now)]_vars
    /\ TickFits ~> (pc = "poll" /\ accepted)

\* A second tick that came later than update_interval plus the poll
\* timeout after the first: its frame was slow.
C24_Witness ==
    /\ pc = "poll"
    /\ accepted
    /\ app.metrics.cpu_history[Len(app.metrics.cpu_history) - 2]
          = Last(SystemInfoDefault.cpu_history)
    /\ app.last_update > 2 * (app.update_interval + PollTimeout)

\* ------------------------------------------------------------ progress bar

\* create_progress_bar(percentage, width) called.
CreateProgressBar ==
    /\ pc = "call"
    /\ \E percentage \in 0..MaxPercentage, width \in 0..MaxWidth:
          utils' = [fn |-> "create_progress_bar",
                    percentage |-> percentage,
                    width |-> width,
                    ret |-> create_progress_bar(percentage, width)]
    /\ UNCHANGED <<app, now, pc, term, accepted, op, run, start>>

NextBar == CreateProgressBar

SpecBar == InitCall /\ [][NextBar]_vars

\* C25. create_progress_bar(p, w) for p in 0..100 returns '[', then
\* round(p * w / 100) filled cells (the nearest integer, a half rounded up),
\* then w minus that many empty cells, then ']': exactly w cells. 0 gives
\* all empty, 100 all filled, 50 of width 10 five filled.
C25_ProgressBar ==
    (utils.fn = "create_progress_bar" /\ utils.percentage <= 100) =>
        LET p == utils.percentage
            w == utils.width
            b == utils.ret
        IN  \E k \in 0..w:
               /\ p * w - 50 < 100 * k
               /\ 100 * k <= p * w + 50
               /\ Len(b) = w + 2
               /\ b[1] = "["
               /\ b[w + 2] = "]"
               /\ \A i \in 1..w:
                     b[i + 1] = IF i <= k THEN "FULL BLOCK" ELSE "LIGHT SHADE"
               /\ (p = 0 => k = 0)
               /\ (p = 100 => k = w)
               /\ (p = 50 /\ w = 10 => k = 5)

\* 25 percent of width 10: two and a half cells, rounded to three.
C25_Witness ==
    /\ utils.fn = "create_progress_bar"
    /\ utils.percentage = 25
    /\ utils.width = 10
    /\ utils.ret = <<"[", "FULL BLOCK", "FULL BLOCK", "FULL BLOCK",
                      "LIGHT SHADE", "LIGHT SHADE", "LIGHT SHADE",
                      "LIGHT SHADE", "LIGHT SHADE", "LIGHT SHADE",
                      "LIGHT SHADE", "]">>

\* --------------------------------------------- the steps of the process scroll

\* The App a with this selection and this window offset.
Moved(a, sel, offset) ==
    [a EXCEPT !.selected_process = sel, !.process_scroll_offset = offset]

\* C26. scroll_down in the Process view: on the last index nothing changes;
\* otherwise selected_process grows by exactly 1, and process_scroll_offset
\* grows by exactly 1 iff the new selection is >= offset + max_processes
\* and is otherwise unchanged.
C26_ScrollDown ==
    [][(op' = "scroll_down" /\ app.current_view = "Process") =>
          LET sel == app.selected_process
              offset == app.process_scroll_offset
          IN  IF sel = NumProcesses(app) - 1
              THEN app' = app
              ELSE app' = Moved(app, sel + 1,
                                IF sel + 1 >= offset + app.max_processes
                                THEN offset + 1 ELSE offset)]_vars

\* Two steps down a viewport of two rows: the second one moved the window.
C26_Witness ==
    /\ op = "scroll_down"
    /\ run = 2
    /\ app.max_processes = 2
    /\ start.selected_process = 0
    /\ start.process_scroll_offset = 0
    /\ app.selected_process = 2
    /\ app.process_scroll_offset = 1

\* C27. scroll_up in the Process view: on index 0 nothing changes;
\* otherwise selected_process shrinks by exactly 1, and
\* process_scroll_offset shrinks by exactly 1 iff the new selection is
\* below the offset and is otherwise unchanged.
C27_ScrollUp ==
    [][(op' = "scroll_up" /\ app.current_view = "Process") =>
          LET sel == app.selected_process
              offset == app.process_scroll_offset
          IN  IF sel = 0
              THEN app' = app
              ELSE app' = Moved(app, sel - 1,
                                IF sel - 1 < offset
                                THEN offset - 1 ELSE offset)]_vars

\* One step up from the top row of a scrolled window: the window followed.
C27_Witness ==
    /\ op = "scroll_up"
    /\ run = 1
    /\ start.current_view = "Process"
    /\ start.process_scroll_offset > 0
    /\ start.selected_process = start.process_scroll_offset
    /\ app.selected_process = start.selected_process - 1
    /\ app.process_scroll_offset = start.process_scroll_offset - 1

\* C28. Paging in the Process view with page = max_processes and len >= 1:
\* scroll_page_down sets the selection to min(selection + page, len - 1)
\* and the offset to min(offset + page, max(0, len - page));
\* scroll_page_up sets the selection to max(selection - page, 0) and the
\* offset to max(offset - page, 0).
C28_Paging ==
    [][(app.current_view = "Process" /\ NumProcesses(app) >= 1) =>
          LET sel == app.selected_process
              offset == app.process_scroll_offset
              page == app.max_processes
              len == NumProcesses(app)
          IN  /\ op' = "scroll_page_down" =>
                    app' = Moved(app, Min(sel + page, len - 1),
                                 Min(offset + page, Max(0, len - page)))
              /\ op' = "scroll_page_up" =>
                    app' = Moved(app, Max(sel - page, 0),
                                 Max(offset - page, 0))]_vars

\* A page up from the bottom of a list of two pages: the selection stops
\* short of the top, the window reaches it.
C28_Witness ==
    /\ op = "scroll_page_up"
    /\ run = 1
    /\ start.current_view = "Process"
    /\ start.selected_process = NumProcesses(start) - 1
    /\ start.process_scroll_offset > 0
    /\ app.selected_process = start.selected_process - app.max_processes
    /\ app.selected_process > 0
    /\ app.process_scroll_offset = 0

\* C29. Jumps in the Process view with len >= 1: scroll_top sets selection
\* and offset to 0; scroll_bottom sets the selection to len - 1 and the
\* offset to max(0, len - max_processes); scroll_top after scroll_bottom
\* returns to (0, 0).
C29_Jumps ==
    [][(app.current_view = "Process" /\ NumProcesses(app) >= 1) =>
          /\ op' = "scroll_top" => app' = Moved(app, 0, 0)
          /\ op' = "scroll_bottom" =>
                app' = Moved(app, NumProcesses(app) - 1,
                             Max(0, NumProcesses(app) - app.max_processes))
          /\ (op = "scroll_bottom" /\ op' = "scroll_top") =>
                /\ app'.selected_process = 0
                /\ app'.process_scroll_offset = 0]_vars

\* scroll_top called on the App scroll_bottom had left at the end of a list
\* longer than the viewport.
C29_Witness ==
    /\ op = "scroll_top"
    /\ run = 1
    /\ start.current_view = "Process"
    /\ start.selected_process = NumProcesses(start) - 1
    /\ start.process_scroll_offset
          = NumProcesses(start) - start.max_processes
    /\ start.process_scroll_offset > 0
    /\ app.selected_process = 0
    /\ app.process_scroll_offset = 0

\* C30. As claimed: in every view but Process the generic scroll_offset
\* follows the process scroll: down and up change it by 1 (floor 0),
\* page-down and page-up by a full page of max_processes rows, Home sets it
\* to 0, and End moves it to the end position, where a step down changes
\* nothing.
C30_GenericScroll ==
    [][app.current_view # "Process" =>
          LET offset == app.scroll_offset
              page == app.max_processes
          IN  /\ op' = "scroll_down" /\ op # "scroll_bottom" =>
                    app'.scroll_offset = offset + 1
              /\ op' = "scroll_up" => app'.scroll_offset = Max(offset - 1, 0)
              /\ op' = "scroll_page_down" =>
                    app'.scroll_offset = offset + page
              /\ op' = "scroll_page_up" =>
                    app'.scroll_offset = Max(offset - page, 0)
              /\ op' = "scroll_top" => app'.scroll_offset = 0
              /\ (op = "scroll_bottom" /\ op' = "scroll_down") =>
                    app'.scroll_offset = offset]_vars

\* ---------------------------------------------------- the values of a tick

\* C31. After every accepted tick cpu_total_usage is the integer-truncated
\* arithmetic mean of the per-core usages, floor(sum / number of cores), and
\* that same value is the one pushed into cpu_history.
C31_TruncatedMean ==
    [][(pc = "update" /\ GateOpen) =>
          LET n == app'.metrics
              cores == Len(n.cpu_usage_per_core)
              total == Sum(n.cpu_usage_per_core)
          IN  /\ n.cpu_total_usage * cores <= total
              /\ total < (n.cpu_total_usage + 1) * cores
              /\ Last(n.cpu_history) = n.cpu_total_usage]_vars

\* An accepted tick whose mean had a fraction to cut off.
C31_Witness ==
    /\ pc = "poll"
    /\ accepted
    /\ Sum(app.metrics.cpu_usage_per_core) % CpuCount >= CpuCount \div 2
    /\ app.metrics.cpu_total_usage
          = Sum(app.metrics.cpu_usage_per_core) \div CpuCount
    /\ Last(app.metrics.cpu_history) = app.metrics.cpu_total_usage

\* ------------------------------------------------------ the detail overlay

\* C32. As claimed: in every reachable state of the control loop the detail
\* overlay is open only in the Process view: show_proc_details = true
\* implies current_view = Process.
C32_DetailsOnlyInProcess ==
    app.show_proc_details => app.current_view = "Process"

\* ------------------------------------------------------------- re-sorting

\* App::default(), constructed one full interval before the end of the
\* clock, over one row or over the first MaxProcs sample processes; `level`
\* gives every row the cpu and memory usage of the first one (rows with
\* equal sort values).
InitResort ==
    /\ now = (MaxTicks - 1) * Millis(DefaultIntervalMs)
    /\ \E L \in {1, MaxProcs}, level \in BOOLEAN:
          LET rows == SubSeq(generate_sample_processes, 1, L)
          IN  app = [AppDefault(now) EXCEPT
                        !.metrics.processes =
                           IF level
                           THEN [n \in 1..L |->
                                   [rows[n] EXCEPT
                                      !.cpu_usage = rows[1].cpu_usage,
                                      !.memory_usage = rows[1].memory_usage]]
                           ELSE rows,
                        !.max_processes = MaxRows]
    /\ term = TermSetUp
    /\ utils = NoCall
    /\ pc = "call"
    /\ accepted = FALSE
    /\ op = "default"
    /\ run = 0
    /\ start = app

\* sort_processes and change_sort_column called directly, update_metrics
\* called once a full interval has passed.
NextResort ==
    \/ SortProcesses
    \/ ChangeSortColumn
    \/ Tick

SpecResort == InitResort /\ [][NextResort]_vars

\* The pids of the list s, in its order.
Pids(s) == [n \in 1..Len(s) |-> s[n].pid]

\* t holds the pids of s, each of them once.
PermutationOfPids(s, t) ==
    /\ Len(t) = Len(s)
    /\ {t[n].pid : n \in 1..Len(t)} = {s[n].pid : n \in 1..Len(s)}
    /\ \A i, j \in 1..Len(t): t[i].pid = t[j].pid => i = j

\* C33. Sorting is a permutation: sort_processes, change_sort_column and an
\* accepted tick never add, drop or duplicate a process; the list length
\* and the set of pids are the same before and after.
C33_SortIsPermutation ==
    [][(\/ op' = "sort_processes"
        \/ \E k \in ProcessSort: op' = SortOp(k)
        \/ op' = "update_metrics" /\ accepted') =>
          PermutationOfPids(app.metrics.processes, app'.metrics.processes)]_vars

\* A tick that has moved rows with equal sort values among others.
C33_Witness ==
    /\ op = "update_metrics"
    /\ accepted
    /\ Len(app.metrics.processes) >= 3
    /\ \E i \in 1..(Len(app.metrics.processes) - 1):
          app.metrics.processes[i].cpu_usage
             = app.metrics.processes[i + 1].cpu_usage
    /\ Pids(app.metrics.processes) # Pids(start.metrics.processes)
    /\ PermutationOfPids(start.metrics.processes, app.metrics.processes)

\* -------------------------------------------------------- what a tick keeps

\* C34. Tick frame: an accepted tick changes only the metrics (the history
\* buffers and the process order with them) and last_update; it leaves
\* current_view, selected_process, process_scroll_offset, scroll_offset,
\* all overlay and toggle flags, paused, update_interval, process_sort and
\* sort_reverse unchanged: the selection is an index, it does not follow
\* the process it stood on.
C34_TickFrame ==
    [][(pc = "update" /\ GateOpen) =>
          /\ app'.current_view = app.current_view
          /\ app'.selected_process = app.selected_process
          /\ app'.process_scroll_offset = app.process_scroll_offset
          /\ app'.scroll_offset = app.scroll_offset
          /\ app'.show_help = app.show_help
          /\ app'.show_proc_details = app.show_proc_details
          /\ app'.show_full_command = app.show_full_command
          /\ app'.show_tree_view = app.show_tree_view
          /\ app'.proc_aggregated = app.proc_aggregated
          /\ app'.paused = app.paused
          /\ app'.update_interval = app.update_interval
          /\ app'.process_sort = app.process_sort
          /\ app'.sort_reverse = app.sort_reverse
          /\ app'.max_processes = app.max_processes]_vars

\* '2', 'j', '-', then a tick: the second row is still the selected one and
\* another process stands on it.
C34_Witness ==
    /\ pc = "poll"
    /\ accepted
    /\ op = EventOp(KeyEvent("Press", "-"))
    /\ app.current_view = "Process"
    /\ app.selected_process = 1
    /\ start.selected_process = 1
    /\ app.metrics.processes[2].pid # start.metrics.processes[2].pid
    /\ app.metrics.cpu_history # start.metrics.cpu_history

\* ------------------------------------------------------ what a scroll keeps

\* The key codes run_app dispatches to the six scroll methods.
ScrollKeys ==
    {"Down", "j", "Up", "k", "PageDown", "J", "PageUp", "K", "Home", "End"}

\* C35. Scroll frame: a scroll operation in the Process view never changes
\* scroll_offset, a scroll operation in any other view never changes
\* selected_process or process_scroll_offset, and no scroll operation
\* changes the view, the sort key or direction, the flags, the interval or
\* the metrics.
C35_ScrollFrame ==
    [][\A c \in ScrollKeys:
         Dispatched(KeyEvent("Press", c)) =>
            /\ app.current_view = "Process" =>
                  app'.scroll_offset = app.scroll_offset
            /\ app.current_view # "Process" =>
                  /\ app'.selected_process = app.selected_process
                  /\ app'.process_scroll_offset = app.process_scroll_offset
            /\ app'.current_view = app.current_view
            /\ app'.process_sort = app.process_sort
            /\ app'.sort_reverse = app.sort_reverse
            /\ app'.show_help = app.show_help
            /\ app'.show_proc_details = app.show_proc_details
            /\ app'.show_full_command = app.show_full_command
            /\ app'.show_tree_view = app.show_tree_view
            /\ app'.proc_aggregated = app.proc_aggregated
            /\ app'.paused = app.paused
            /\ app'.update_interval = app.update_interval
            /\ app'.metrics = app.metrics]_vars

\* 'j' in the System view, '2', then End: the process window has moved and
\* the generic offset is where 'j' left it.
C35_Witness ==
    /\ op = EventOp(KeyEvent("Press", "End"))
    /\ app.current_view = "Process"
    /\ app.selected_process = NumProcesses(app) - 1
    /\ app.process_scroll_offset > 0
    /\ app.scroll_offset = 1

\* ---------------------------------------------------------- after a pause

\* C36. Resume delay: every iteration of run_app that ends while paused
\* leaves last_update at the clock; switching pause off does not move
\* last_update, and while not paused only an accepted tick moves it; a tick
\* is accepted only when update_interval has passed since last_update.
\* Hence after pause is switched off no tick is accepted until at least
\* update_interval has passed since the last iteration that ended paused,
\* however long the pause was.
C36_ResumeDelay ==
    /\ []((pc = "draw" /\ app.paused) => app.last_update = now)
    /\ [][/\ (app.paused /\ ~app'.paused) =>
                app'.last_update = app.last_update
          /\ (~app.paused /\ ~app'.paused) =>
                \/ app'.last_update = app.last_update
                \/ pc = "update" /\ app'.last_update = now
          /\ (pc = "update" /\ app' # app) =>
                now - app.last_update >= app.update_interval]_vars

\* Pause has been switched off and update_metrics has turned a tick down
\* although an interval and more has passed since the last tick (here,
\* since the App was constructed): the interval restarted with the pause.
C36_Witness ==
    /\ pc = "poll"
    /\ ~app.paused
    /\ ~accepted
    /\ app.metrics = SystemInfoDefault
    /\ now >= app.update_interval + PollTimeout
    /\ app.last_update > 0
    /\ now - app.last_update < app.update_interval

\* ------------------------------------------------ the ranges of the metrics

\* The App after 2^k more accepted ticks that all drew r, the clock being
\* read from the last of them on: 2^(k-1) ticks and then 2^(k-1) more,
\* which lead back to a once more where the first ones did.
RECURSIVE AfterTicks(_, _, _)
AfterTicks(a, k, r) ==
    IF k = 0 THEN refresh_metrics(a, a.last_update, r)
    ELSE LET b == AfterTicks(a, k - 1, r)
         IN  IF b = a THEN a ELSE AfterTicks(b, k - 1, r)

\* The App as constructed, or after 2^WarmDoublings ticks that went all up
\* or all down, with the interval halved twice by '-'.
InitRange ==
    /\ \E a \in {AppDefault(0),
                  AfterTicks(AppDefault(0), WarmDoublings, DrawHigh),
                  AfterTicks(AppDefault(0), WarmDoublings, DrawLow)}:
          app = decrease_update_delay(decrease_update_delay(a))
    /\ now = 0
    /\ term = TermSetUp
    /\ utils = NoCall
    /\ pc = "call"
    /\ accepted = FALSE
    /\ op = "default"
    /\ run = 0
    /\ start = app

NextRange == Tick

SpecRange == InitRange /\ [][NextRange]_vars

\* Every entry of the sequence s is in lo..hi.
AllWithin(s, lo, hi) == \A n \in 1..Len(s): lo <= s[n] /\ s[n] <= hi

\* C37. Simulated metric ranges: after any number of ticks every per-core
\* usage and cpu_total_usage is in [0, 100], memory_used is in
\* [0, memory_total], total_rx is in [0, 5000], total_tx is in [0, 2500]
\* and every process memory_usage is in [0, 2000]; hence every entry of
\* cpu_history and memory_history is in [0, 100].
C37_MetricRanges ==
    LET m == app.metrics
    IN  /\ AllWithin(m.cpu_usage_per_core, 0, 100)
        /\ 0 <= m.cpu_total_usage /\ m.cpu_total_usage <= 100
        /\ 0 <= m.memory_used /\ m.memory_used <= m.memory_total
        /\ 0 <= m.total_rx /\ m.total_rx <= 5000
        /\ 0 <= m.total_tx /\ m.total_tx <= 2500
        /\ \A n \in 1..Len(m.processes):
              /\ 0 <= m.processes[n].memory_usage
              /\ m.processes[n].memory_usage <= 2000
        /\ AllWithin(m.cpu_history, 0, 100)
        /\ AllWithin(m.memory_history, 0, 100)

\* A tick that went up from an App at its ceilings and was stopped by every
\* one of them.
C37_Witness ==
    /\ op = "update_metrics"
    /\ accepted
    /\ \A n \in 1..CpuCount: app.metrics.cpu_usage_per_core[n] = 100
    /\ app.metrics.cpu_total_usage = 100
    /\ app.metrics.memory_used = app.metrics.memory_total
    /\ app.metrics.total_rx = 5000
    /\ app.metrics.total_tx = 2500
    /\ \A n \in 1..Len(app.metrics.processes):
          app.metrics.processes[n].memory_usage = 2000
    /\ Last(app.metrics.cpu_history) = 100
    /\ Last(app.metrics.memory_history) = 100

\* ------------------------------------------------------- sorting once more

\* C38. As claimed: sort_processes run a second time, with the process
\* values, the key and the direction unchanged, yields exactly the order
\* of the first run: rows with equal sort values do not swap places
\* between consecutive re-sorts.
C38_ResortIdempotent ==
    [][(op = "sort_processes" /\ op' = "sort_processes") =>
          app'.metrics.processes = app.metrics.processes]_vars

=============================================================================
